---- MODULE Spec2Model ----
(***************************************************************************)
(* Model of "Simple Data Cleaning Script": the AutoDataClean class         *)
(* (clean, get_summary) and the clean_data convenience function of         *)
(* auto_data_clean.py, with the sample table of example.py.                *)
(*                                                                         *)
(* A DataFrame is a record [columns, rows]: the column names and the rows  *)
(* in order, each row a tuple with one cell per column.  A cell is <<v>>   *)
(* for a present value v and << >> for a missing one (None / NaN).         *)
(* DataFrames are objects: heap maps object identities to DataFrames, so   *)
(* that copy and inplace mutation are distinguishable.                     *)
(* A path is the sequence of its characters.                               *)
(***************************************************************************)
EXTENDS Integers, Sequences, FiniteSets, TLC

VARIABLES
    heap,      \* object identity -> DataFrame
    self,      \* the AutoDataClean instance in use: its two flags
    pc,        \* "idle", or the line the running clean call is at
    arg,       \* the object the caller passed to clean (0: no call yet)
    inplace,   \* the inplace argument of the running / last clean call
    df,        \* clean's local name df: an object identity (0: unbound)
    locals,    \* clean's integer locals, by name; only the assigned ones
    stdout,    \* lines printed by the running / last call of clean or clean_data
    entry,     \* heap[arg] as it was when clean was entered
    ret,       \* object returned by the last clean call (0: none yet)
    calls,     \* finished clean calls: flags, argument, input and output rows,
               \* returned object, caller's rows at return, printed lines
    summary,   \* << >>, or <<[of, value]>>: last get_summary call
    filepath,  \* clean_data: its filepath argument
    output_filepath,  \* clean_data: << >> for None, or <<path>>
    fs,        \* the files: path -> DataFrame stored in it
    saved      \* << >>, or <<path>>: where clean_data wrote

vars == <<heap, self, pc, arg, inplace, df, locals, stdout, entry, ret, calls,
          summary, filepath, output_filepath, fs, saved>>

cleanVars == <<heap, self, pc, arg, inplace, df, locals, stdout, entry, ret, calls>>
fileVars == <<filepath, output_filepath, fs, saved>>

(***************************************************************************)
(* Bounds of the model.                                                    *)
(***************************************************************************)
MaxRows == 3      \* generated tables have at most this many rows
MaxCalls == 2     \* clean calls in one behaviour
MaxPieces == 3    \* generated paths are concatenations of at most this many pieces

(***************************************************************************)
(* Cells, rows, tables.                                                    *)
(***************************************************************************)
None == << >>
Some(v) == <<v>>

\* pd.isnull on one cell
IsNull(c) == c = None

\* The columns and cell values of the docstring's sample frame
\* (columns 'A', 'B'; values 1, 2, None).
DocColumns == <<"A", "B">>
DocValues == {Some(1), Some(2), None}

DataFrame(columns, rows) == [columns |-> columns, rows |-> rows]

\* All rows over n columns with cells from DocValues.
DocRows == [1..Len(DocColumns) -> DocValues]

RECURSIVE SeqsUpTo(_, _)
SeqsUpTo(S, n) ==
    IF n = 0 THEN {<< >>}
    ELSE LET shorter == SeqsUpTo(S, n - 1)
         IN  shorter \cup {Append(s, x) : s \in {t \in shorter : Len(t) = n - 1}, x \in S}

GeneratedFrames == {DataFrame(DocColumns, rows) : rows \in SeqsUpTo(DocRows, MaxRows)}

\* The sample data of example.py, main().
SampleFrame ==
    DataFrame(<<"ID", "Name", "Age", "Salary">>,
        << <<Some(1), Some("Alice"),   Some(25), Some(50000)>>,
           <<Some(2), Some("Bob"),     Some(30), Some(60000)>>,
           <<Some(2), Some("Bob"),     Some(30), Some(60000)>>,
           <<Some(3), Some("Charlie"), None,     Some(70000)>>,
           <<Some(4), None,            Some(28), Some(55000)>>,
           <<Some(5), Some("Eve"),     Some(35), None>>,
           <<Some(5), Some("Eve"),     Some(35), None>> >>)

\* len(df)
len(frame) == Len(frame.rows)

(***************************************************************************)
(* pandas operations used by the code, as functions of a DataFrame.        *)
(***************************************************************************)

\* DataFrame.duplicated(), keep='first': scan the rows in order with the set
\* of rows seen so far; a row is marked when it has been seen already.
\* Missing cells hash and compare equal to each other.
RECURSIVE DuplicatedFrom(_, _, _)
DuplicatedFrom(rows, i, seen) ==
    IF i > Len(rows) THEN << >>
    ELSE <<rows[i] \in seen>> \o DuplicatedFrom(rows, i + 1, seen \cup {rows[i]})

\* Variants of duplicated() with a fault, used to test the properties below:
\* keep=False (every member of a group of equal rows is marked) ...
DuplicatedKeepFalse(frame) ==
    [i \in 1..len(frame) |->
        \E j \in 1..len(frame) : j # i /\ frame.rows[j] = frame.rows[i]]

\* ... missing cells that never compare equal (NaN # NaN), so that a row with a
\* missing cell is never a duplicate ...
DuplicatedNaNDistinct(frame) ==
    [i \in 1..len(frame) |->
        /\ \A c \in 1..Len(frame.columns) : ~IsNull(frame.rows[i][c])
        /\ \E j \in 1..(i - 1) : frame.rows[j] = frame.rows[i]]

\* ... and a scan that stops marking after the first duplicate it finds.
DuplicatedOnce(frame) ==
    [i \in 1..len(frame) |->
        /\ \E j \in 1..(i - 1) : frame.rows[j] = frame.rows[i]
        /\ \A k \in 1..(i - 1) : ~\E j \in 1..(k - 1) : frame.rows[j] = frame.rows[k]]

Duplicated(frame) == DuplicatedFrom(frame.rows, 1, {})

\* DataFrame.isnull(): the mask of missing cells, row by row.
IsNullFrame(frame) ==
    [i \in 1..len(frame) |-> [c \in 1..Len(frame.columns) |-> IsNull(frame.rows[i][c])]]

\* Faulty variant: .all(axis=1).
AllAxis1(mask) == [i \in 1..Len(mask) |-> \A c \in 1..Len(mask[i]) : mask[i][c]]

\* .any(axis=1) on a boolean frame: per row, is any cell TRUE.
AnyAxis1(mask) == [i \in 1..Len(mask) |-> \E c \in 1..Len(mask[i]) : mask[i][c]]

\* Series.sum() of a boolean series: the number of TRUE entries.
RECURSIVE SumBool(_)
SumBool(s) == IF s = << >> THEN 0 ELSE (IF s[1] THEN 1 ELSE 0) + SumBool(Tail(s))

\* frame[mask]: boolean indexing, the rows whose mask entry is TRUE, in order.
RECURSIVE TakeRows(_, _)
TakeRows(rows, mask) ==
    IF rows = << >> THEN << >>
    ELSE (IF mask[1] THEN <<rows[1]>> ELSE << >>) \o TakeRows(Tail(rows), Tail(mask))

Negate(mask) == [i \in 1..Len(mask) |-> ~mask[i]]

\* df.drop_duplicates(): self[~self.duplicated()]
DropDuplicates(frame) ==
    DataFrame(frame.columns, TakeRows(frame.rows, Negate(Duplicated(frame))))

\* Faulty variant: how='all', dropping only the rows with every cell missing.
DropNaAll(frame) ==
    DataFrame(frame.columns, TakeRows(frame.rows, Negate(AllAxis1(IsNullFrame(frame)))))

\* df.dropna(): axis=0, how='any': keep the rows with no missing cell.
DropNa(frame) ==
    DataFrame(frame.columns, TakeRows(frame.rows, Negate(AnyAxis1(IsNullFrame(frame)))))

\* df.isnull().sum().to_dict(): column name -> number of missing cells in it.
NullCountsPerColumn(frame) ==
    LET mask == IsNullFrame(frame)
    IN  [name \in {frame.columns[c] : c \in 1..Len(frame.columns)} |->
            LET c == CHOOSE k \in 1..Len(frame.columns) : frame.columns[k] = name
            IN  SumBool([i \in 1..len(frame) |-> mask[i][c]])]

\* Faulty variant of the subtraction below: operands exchanged.
RowsRemovedReversed(before, frame) == len(frame) - before

\* before - len(df): the rows a stage removed (lines 88 and 95).
RowsRemoved(before, frame) == before - len(frame)

\* AutoDataClean.get_summary
GetSummary(frame) ==
    [total_rows |-> len(frame),
     duplicate_rows |-> SumBool(Duplicated(frame)),
     rows_with_nulls |-> SumBool(AnyAxis1(IsNullFrame(frame))),
     null_counts_per_column |-> NullCountsPerColumn(frame)]

\* The table AutoDataClean.clean returns, as a function of its input and the flags.
CleanResult(frame, remove_duplicates, remove_nulls) ==
    LET deduped == IF remove_duplicates THEN DropDuplicates(frame) ELSE frame
    IN  IF remove_nulls THEN DropNa(deduped) ELSE deduped

(***************************************************************************)
(* str.replace and the paths of clean_data.                                *)
(***************************************************************************)

\* Does s continue with the characters of old from position 1.
StartsWith(s, old) ==
    /\ Len(s) >= Len(old)
    /\ \A k \in 1..Len(old) : s[k] = old[k]

\* Python's str.replace(old, new) for a non-empty old: scanning from the left,
\* every non-overlapping occurrence of old is replaced by new.
RECURSIVE Replace(_, _, _)
Replace(s, old, new) ==
    IF Len(s) < Len(old) THEN s
    ELSE IF StartsWith(s, old)
         THEN new \o Replace(SubSeq(s, Len(old) + 1, Len(s)), old, new)
         ELSE <<s[1]>> \o Replace(Tail(s), old, new)

DotCsv == <<".", "c", "s", "v">>
CleanedDotCsv == <<"_", "c", "l", "e", "a", "n", "e", "d", ".", "c", "s", "v">>

\* Faulty variant: a path in which nothing was replaced gets '_cleaned' appended.
OutputPathFallback(path, given) ==
    IF given = None
    THEN (IF Replace(path, DotCsv, CleanedDotCsv) = path
          THEN path \o <<"_", "c", "l", "e", "a", "n", "e", "d">>
          ELSE Replace(path, DotCsv, CleanedDotCsv))
    ELSE given[1]

\* clean_data, lines 161-162: the path the cleaned table is saved to.
OutputPath(path, given) ==
    IF given = None THEN Replace(path, DotCsv, CleanedDotCsv) ELSE given[1]

\* Paths of the model: concatenations of at most MaxPieces pieces.
Pieces == { <<"d">>, <<".">>, <<"c", "s", "v">>, DotCsv, <<".", "t", "x", "t">> }

RECURSIVE Concat(_)
Concat(ps) == IF ps = << >> THEN << >> ELSE ps[1] \o Concat(Tail(ps))

GeneratedPaths == {Concat(ps) : ps \in SeqsUpTo(Pieces, MaxPieces)} \ {<< >>}

\* '.' and '..' name directories on every file system: no file can be stored
\* under them, and read_csv (line 154) raises on them.
IsDirectory(path) == path \in { <<".">>, <<".", ".">> }

\* Explicit output paths: 'o.csv' and 'o'.
GivenOutputs == { <<"o", ".", "c", "s", "v">>, <<"o">> }

\* The frame of the class docstring: {'A': [1, 1, 2, None], 'B': ['x', 'x', 'y', 'z']},
\* with x, y, z written 1, 2, 3.
DocFrame ==
    DataFrame(DocColumns,
        << <<Some(1), Some(1)>>, <<Some(1), Some(1)>>,
           <<Some(2), Some(2)>>, <<None, Some(3)>> >>)

(***************************************************************************)
(* The state machine.                                                      *)
(***************************************************************************)
NoFile == [p \in {} |-> DocFrame]

\* A caller holding one table and one cleaner; no file involved.
InitClean(frame) ==
    /\ heap = (1 :> frame)
    /\ self \in [remove_duplicates : BOOLEAN, remove_nulls : BOOLEAN]
    /\ pc = "idle"
    /\ arg = 0
    /\ inplace = FALSE
    /\ df = 0
    /\ locals = << >>
    /\ stdout = << >>
    /\ entry = frame
    /\ ret = 0
    /\ calls = << >>
    /\ summary = << >>
    /\ filepath = << >>
    /\ output_filepath = None
    /\ fs = NoFile
    /\ saved = << >>

Init ==
    \/ \E frame \in GeneratedFrames : InitClean(frame)
    \/ InitClean(SampleFrame)

\* A printed line: the message and the values formatted into it.
Line(msg, args) == [msg |-> msg, args |-> args]

Bind(name, value) == [n \in DOMAIN locals \cup {name} |->
                         IF n = name THEN value ELSE locals[n]]

NewObject == Cardinality(DOMAIN heap) + 1

\* Faulty variant: no copy is made.
TargetAlias(o, ip) == o

\* Lines 81-82: the object df names after them, the caller's own when inplace
\* and a fresh one (df.copy()) otherwise.
Target(o, ip) == IF ip THEN o ELSE NewObject

\* clean, lines 81-84: the caller passes object o; copy unless inplace;
\* original_rows = len(df).
CleanEnter(o, ip) ==
    /\ pc = "idle"
    /\ Len(calls) < MaxCalls
    /\ o \in DOMAIN heap
    /\ arg' = o
    /\ inplace' = ip
    /\ entry' = heap[o]
    /\ df' = Target(o, ip)
    /\ heap' = [x \in DOMAIN heap \cup {Target(o, ip)} |->
                   IF x = Target(o, ip) THEN heap[o] ELSE heap[x]]
    /\ locals' = ("original_rows" :> len(heap[o]))
    /\ stdout' = << >>
    /\ pc' = "L86"
    /\ UNCHANGED <<self, ret, calls, summary, fileVars>>

\* clean, lines 86-89: the duplicate stage.
CleanDropDuplicates ==
    /\ pc = "L86"
    /\ IF self.remove_duplicates
       THEN LET after == DropDuplicates(heap[df])
                duplicates_removed == RowsRemoved(locals["original_rows"], after)
            IN  /\ heap' = [heap EXCEPT ![df] = after]
                /\ locals' = Bind("duplicates_removed", duplicates_removed)
                /\ stdout' = Append(stdout,
                       Line("Removed duplicate rows", <<duplicates_removed>>))
       ELSE UNCHANGED <<heap, locals, stdout>>
    /\ pc' = "L91"
    /\ UNCHANGED <<self, arg, inplace, df, entry, ret, calls, summary, fileVars>>

\* Faulty variant of line 91: the null stage is measured against original_rows.
CleanRowsBeforeOriginal ==
    /\ pc = "L91"
    /\ locals' = Bind("rows_before_null_removal", locals["original_rows"])
    /\ pc' = "L93"
    /\ UNCHANGED <<heap, self, arg, inplace, df, stdout, entry, ret, calls,
                   summary, fileVars>>

\* clean, line 91: rows_before_null_removal = len(df).
CleanRowsBefore ==
    /\ pc = "L91"
    /\ locals' = Bind("rows_before_null_removal", len(heap[df]))
    /\ pc' = "L93"
    /\ UNCHANGED <<heap, self, arg, inplace, df, stdout, entry, ret, calls,
                   summary, fileVars>>

\* clean, lines 93-96: the null stage.
CleanDropNa ==
    /\ pc = "L93"
    /\ IF self.remove_nulls
       THEN LET after == DropNa(heap[df])
                nulls_removed == RowsRemoved(locals["rows_before_null_removal"], after)
            IN  /\ heap' = [heap EXCEPT ![df] = after]
                /\ locals' = Bind("nulls_removed", nulls_removed)
                /\ stdout' = Append(stdout,
                       Line("Removed rows with null values", <<nulls_removed>>))
       ELSE UNCHANGED <<heap, locals, stdout>>
    /\ pc' = "L98"
    /\ UNCHANGED <<self, arg, inplace, df, entry, ret, calls, summary, fileVars>>

\* clean, lines 98-100: the closing line and the return of df.
CleanReturn ==
    /\ pc = "L98"
    /\ LET printed == Append(stdout,
               Line("Cleaning complete", <<locals["original_rows"], len(heap[df])>>))
       IN  /\ stdout' = printed
           /\ calls' = Append(calls,
                  [self |-> self, inplace |-> inplace, arg |-> arg, input |-> entry,
                   returned |-> df, output |-> heap[df],
                   caller |-> heap[arg], printed |-> printed])
    /\ ret' = df
    /\ pc' = "idle"
    /\ UNCHANGED <<heap, self, arg, inplace, df, locals, entry, summary, fileVars>>

\* The caller cleans its table, or the table the last call returned.
Next ==
    \/ \E o \in {1, ret}, ip \in BOOLEAN : CleanEnter(o, ip)
    \/ CleanDropDuplicates
    \/ CleanRowsBefore
    \/ CleanDropNa
    \/ CleanReturn

Spec == Init /\ [][Next]_vars

(***************************************************************************)
(* get_summary, called on any table the caller holds.                      *)
(***************************************************************************)

\* get_summary(o): the returned dict, kept with the object it was computed
\* from and that object's rows at the time of the call.
Summarize(o) ==
    /\ pc = "idle"
    /\ o \in DOMAIN heap
    /\ summary' = <<[of |-> o, input |-> heap[o], value |-> GetSummary(heap[o])]>>
    /\ UNCHANGED <<cleanVars, fileVars>>

NextSummary == \E o \in DOMAIN heap : Summarize(o)

SpecSummary == Init /\ [][NextSummary]_vars

(***************************************************************************)
(* clean_data: load, clean, derive the output path, save.                  *)
(***************************************************************************)

\* What one clean call prints, as a function of its input and the flags
\* (lines 84-98).
CleanPrinted(frame, remove_duplicates, remove_nulls) ==
    LET original_rows == len(frame)
        deduped == IF remove_duplicates THEN DropDuplicates(frame) ELSE frame
        rows_before_null_removal == len(deduped)
        final == IF remove_nulls THEN DropNa(deduped) ELSE deduped
    IN  (IF remove_duplicates
         THEN <<Line("Removed duplicate rows", <<RowsRemoved(original_rows, deduped)>>)>>
         ELSE << >>)
        \o (IF remove_nulls
            THEN <<Line("Removed rows with null values",
                        <<RowsRemoved(rows_before_null_removal, final)>>)>>
            ELSE << >>)
        \o <<Line("Cleaning complete", <<original_rows, len(final)>>)>>

\* The integer locals one clean call has assigned when it returns, as a
\* function of its input and the flags (lines 84-95).
CleanLocals(frame, remove_duplicates, remove_nulls) ==
    LET deduped == IF remove_duplicates THEN DropDuplicates(frame) ELSE frame
        final == IF remove_nulls THEN DropNa(deduped) ELSE deduped
        assigned == {"original_rows", "rows_before_null_removal"}
                    \cup (IF remove_duplicates THEN {"duplicates_removed"} ELSE {})
                    \cup (IF remove_nulls THEN {"nulls_removed"} ELSE {})
    IN  [n \in assigned |->
            IF n = "original_rows" THEN len(frame)
            ELSE IF n = "duplicates_removed" THEN RowsRemoved(len(frame), deduped)
            ELSE IF n = "rows_before_null_removal" THEN len(deduped)
            ELSE RowsRemoved(len(deduped), final)]

\* clean_data is about to be called with a path and, optionally, an explicit
\* output path.  A file holding the docstring's frame is stored under the path,
\* unless the path names a directory: then there is no file.
InitFile ==
    /\ heap = << >>
    /\ self = [remove_duplicates |-> TRUE, remove_nulls |-> TRUE]
    /\ pc = "idle"
    /\ arg = 0
    /\ inplace = FALSE
    /\ df = 0
    /\ locals = << >>
    /\ stdout = << >>
    /\ entry = DocFrame
    /\ ret = 0
    /\ calls = << >>
    /\ summary = << >>
    /\ filepath \in GeneratedPaths
    /\ output_filepath \in {None} \cup {Some(p) : p \in GivenOutputs}
    /\ fs = [p \in (IF IsDirectory(filepath) THEN {} ELSE {filepath}) |-> DocFrame]
    /\ saved = << >>

\* clean_data(filepath, output_filepath, remove_duplicates, remove_nulls),
\* lines 153-167.  read_csv creates one object; the cleaner built from the two
\* flags runs one whole clean call on it (inplace=False), which makes a second
\* object, assigns clean's locals and prints clean's lines; to_csv stores the
\* cleaned table under the output path and line 165 prints that path.  When
\* no file is stored under filepath, read_csv raises at line 154 and the call
\* ends there, with nothing printed and nothing written: no step.  A file is
\* represented by the table it holds; the text encoding of the cells in the
\* CSV is not represented.
CleanData(remove_duplicates, remove_nulls) ==
    /\ pc = "idle"
    /\ Len(calls) < MaxCalls
    /\ filepath \in DOMAIN fs
    /\ LET loaded == fs[filepath]
           cleaned == CleanResult(loaded, remove_duplicates, remove_nulls)
           printed == CleanPrinted(loaded, remove_duplicates, remove_nulls)
           out == OutputPath(filepath, output_filepath)
           read == NewObject
           copy == NewObject + 1
           cleaner == [remove_duplicates |-> remove_duplicates,
                       remove_nulls |-> remove_nulls]
       IN  /\ heap' = [x \in DOMAIN heap \cup {read, copy} |->
                          IF x = read THEN loaded
                          ELSE IF x = copy THEN cleaned ELSE heap[x]]
           /\ calls' = Append(calls,
                  [self |-> cleaner, inplace |-> FALSE, arg |-> read, input |-> loaded,
                   returned |-> copy, output |-> cleaned,
                   caller |-> loaded, printed |-> printed])
           /\ self' = cleaner
           /\ arg' = read
           /\ inplace' = FALSE
           /\ entry' = loaded
           /\ df' = copy
           /\ locals' = CleanLocals(loaded, remove_duplicates, remove_nulls)
           /\ stdout' = Append(printed, Line("Cleaned data saved to", out))
           /\ ret' = copy
           /\ fs' = [p \in DOMAIN fs \cup {out} |-> IF p = out THEN cleaned ELSE fs[p]]
           /\ saved' = <<out>>
    /\ UNCHANGED <<pc, summary, filepath, output_filepath>>

NextFile == \E rd \in BOOLEAN, rn \in BOOLEAN : CleanData(rd, rn)

SpecFile == InitFile /\ [][NextFile]_vars

(***************************************************************************)
(* Vocabulary of the properties: the row predicates of the data model,     *)
(* stated directly on a sequence of rows.                                  *)
(***************************************************************************)

\* Row i equals, in every column, a strictly earlier row.
EarlierTwin(rows, i) == \E j \in 1..(i - 1) : rows[j] = rows[i]

\* Row i has at least one absent value.
HasAbsent(rows, i) == \E c \in DOMAIN rows[i] : rows[i][c] = None

\* The indices of the rows that survive the enabled filters.
Survivors(rows, remove_duplicates, remove_nulls) ==
    {i \in 1..Len(rows) :
        /\ ~(remove_duplicates /\ EarlierTwin(rows, i))
        /\ ~(remove_nulls /\ HasAbsent(rows, i))}

\* out is exactly the rows of rows at the indices K, in their original order.
IsSubsequenceAt(out, rows, K) ==
    /\ Len(out) = Cardinality(K)
    /\ \A i \in K : out[Cardinality({j \in K : j <= i})] = rows[i]

IsSample(frame) ==
    /\ frame.columns = SampleFrame.columns
    /\ frame.rows = SampleFrame.rows

DuplicatesLine(n) == Line("Removed duplicate rows", <<n>>)
NullsLine(n) == Line("Removed rows with null values", <<n>>)
CompleteLine(original, final) == Line("Cleaning complete", <<original, final>>)

(***************************************************************************)
(* Properties of clean.                                                    *)
(***************************************************************************)

\* The stepwise clean and the functions CleanResult / CleanPrinted /
\* CleanLocals used by clean_data describe the same method: every finished
\* call agrees with them, and so do the variables the last call left.
StepsAgreeWithCleanResult ==
    /\ \A n \in DOMAIN calls :
        LET c == calls[n]
        IN  /\ c.output = CleanResult(c.input, c.self.remove_duplicates,
                                      c.self.remove_nulls)
            /\ c.printed = CleanPrinted(c.input, c.self.remove_duplicates,
                                        c.self.remove_nulls)
    /\ (pc = "idle" /\ calls # << >>) =>
        LET c == calls[Len(calls)]
        IN  /\ arg = c.arg /\ df = c.returned /\ ret = c.returned
            /\ inplace = c.inplace /\ entry = c.input /\ self = c.self
            /\ locals = CleanLocals(c.input, c.self.remove_duplicates,
                                    c.self.remove_nulls)

\* clean_data on a path that names a directory prints and writes nothing.
DirectoryPathNeverRead ==
    IsDirectory(filepath) =>
        /\ saved = << >> /\ stdout = << >> /\ calls = << >>
        /\ DOMAIN fs = {} /\ DOMAIN heap = {}

\* After clean_data, stdout is the lines of its clean call followed by the
\* line naming the path written.
CleanDataPrintsSavedLine ==
    \A k \in DOMAIN saved :
        /\ Len(stdout) = Len(calls[Len(calls)].printed) + 1
        /\ SubSeq(stdout, 1, Len(stdout) - 1) = calls[Len(calls)].printed
        /\ stdout[Len(stdout)] = Line("Cleaned data saved to", saved[k])

\* C1: every finished clean call returned exactly the rows of its input that
\* survive the enabled filters, in their original order: with remove_duplicates
\* a row is dropped iff it equals a strictly earlier row in every column (absent
\* equals absent), with remove_nulls iff it has an absent value; with both flags
\* off the rows are those of the input; an empty input gives an empty output.
C1_CleanReturnsSurvivors ==
    \A n \in DOMAIN calls :
        LET c == calls[n]
            rows == c.input.rows
            rd == c.self.remove_duplicates
            rn == c.self.remove_nulls
        IN  /\ c.output.columns = c.input.columns
            /\ IsSubsequenceAt(c.output.rows, rows, Survivors(rows, rd, rn))
            /\ (~rd /\ ~rn) => c.output.rows = rows
            /\ Len(rows) = 0 => Len(c.output.rows) = 0

\* A call with both flags on whose input has a null-free duplicate and a
\* null-containing first occurrence, and whose output is not empty.
C1_Witness ==
    \E n \in DOMAIN calls :
        LET c == calls[n]
            rows == c.input.rows
        IN  /\ c.self.remove_duplicates /\ c.self.remove_nulls
            /\ \E i \in DOMAIN rows : EarlierTwin(rows, i) /\ ~HasAbsent(rows, i)
            /\ \E i \in DOMAIN rows : HasAbsent(rows, i) /\ ~EarlierTwin(rows, i)
            /\ Len(c.output.rows) = 1

\* C2: a call with inplace false leaves the caller's table as it was on entry
\* (also while the call runs) and returns a different object; a call with
\* inplace true returns the caller's own object, which holds the filtered rows.
C2_CopySemantics ==
    /\ \A n \in DOMAIN calls :
        LET c == calls[n]
        IN  IF c.inplace
            THEN /\ c.returned = c.arg
                 /\ c.caller = c.output
                 /\ IsSubsequenceAt(c.caller.rows, c.input.rows,
                        Survivors(c.input.rows, c.self.remove_duplicates,
                                  c.self.remove_nulls))
            ELSE /\ c.returned # c.arg
                 /\ c.caller = c.input
    /\ (pc # "idle" /\ ~inplace) => (df # arg /\ heap[arg] = entry)

\* A copying call and an inplace call on the caller's table, each of which
\* removed rows.
C2_Witness ==
    /\ Len(calls) = 2
    /\ ~calls[1].inplace /\ calls[1].arg = 1
    /\ Len(calls[1].output.rows) < Len(calls[1].input.rows)
    /\ calls[2].inplace /\ calls[2].arg = 1
    /\ Len(calls[2].output.rows) < Len(calls[2].input.rows)

\* C3 as stated: on the sample table with both flags, 2 duplicates and then 2
\* null rows are removed, leaving 3 rows of 7.
C3_AsStated ==
    \A n \in DOMAIN calls :
        LET c == calls[n]
        IN  (IsSample(c.input) /\ c.self.remove_duplicates /\ c.self.remove_nulls)
            => /\ c.printed = <<DuplicatesLine(2), NullsLine(2), CompleteLine(7, 3)>>
               /\ len(c.output) = 3

\* C3, amended: on the sample table with both flags, 2 duplicates are removed,
\* then 3 null-containing rows of the remaining 5, leaving 2 rows of 7.
C3_SampleClean ==
    /\ \A n \in DOMAIN calls :
        LET c == calls[n]
        IN  (IsSample(c.input) /\ c.self.remove_duplicates /\ c.self.remove_nulls)
            => /\ c.printed = <<DuplicatesLine(2), NullsLine(3), CompleteLine(7, 2)>>
               /\ len(c.output) = 2
    /\ (pc = "L93" /\ IsSample(entry) /\ self.remove_duplicates)
       => locals["rows_before_null_removal"] = 5

\* A finished call on the sample table with both flags on.
C3_Witness ==
    \E n \in DOMAIN calls :
        /\ IsSample(calls[n].input)
        /\ calls[n].self.remove_duplicates /\ calls[n].self.remove_nulls

\* C6: a call whose input is the output of the preceding call of the same
\* cleaner returns the same rows in the same order, and prints 0 for each
\* enabled stage.
C6_Idempotent ==
    \A n \in DOMAIN calls :
        (n > 1 /\ calls[n].self = calls[n - 1].self
               /\ calls[n].input = calls[n - 1].output)
        => LET c == calls[n]
               enabled == (IF c.self.remove_duplicates THEN <<DuplicatesLine(0)>> ELSE << >>)
                          \o (IF c.self.remove_nulls THEN <<NullsLine(0)>> ELSE << >>)
           IN  /\ c.output = c.input
               /\ c.printed = enabled \o <<CompleteLine(len(c.input), len(c.input))>>

\* A second pass, both flags on, over the result of a first pass that removed
\* a duplicate and a null row, two equal rows among the removed duplicates.
C6_Witness ==
    /\ Len(calls) = 2
    /\ calls[2].arg = calls[1].returned
    /\ calls[2].input = calls[1].output
    /\ self.remove_duplicates /\ self.remove_nulls
    /\ calls[1].printed[1].args[1] >= 1
    /\ calls[1].printed[2].args[1] >= 1

\* C7: with both flags on the duplicate stage runs first: before the null stage
\* df holds the input without its duplicates and still with its null rows; the
\* duplicate figure counts every row equal to an earlier one, absent values or
\* not; the null figure counts the null-containing rows among the others; the
\* two figures add up to original rows minus final rows.
C7_StageAttribution ==
    /\ \A n \in DOMAIN calls :
        LET c == calls[n]
            rows == c.input.rows
            D == {i \in DOMAIN rows : EarlierTwin(rows, i)}
            N == {i \in DOMAIN rows \ D : HasAbsent(rows, i)}
        IN  (c.self.remove_duplicates /\ c.self.remove_nulls)
            => /\ c.printed = <<DuplicatesLine(Cardinality(D)),
                                NullsLine(Cardinality(N)),
                                CompleteLine(Len(rows), Len(c.output.rows))>>
               /\ Cardinality(D) + Cardinality(N) = Len(rows) - Len(c.output.rows)
    /\ (pc = "L93" /\ self.remove_duplicates /\ self.remove_nulls)
       => /\ IsSubsequenceAt(heap[df].rows, entry.rows,
                 Survivors(entry.rows, TRUE, FALSE))
          /\ Len(stdout) = 1 /\ stdout[1].msg = "Removed duplicate rows"

\* A finished call with both flags on whose input has a duplicate row with an
\* absent value and a null-containing row that is no duplicate.
C7_Witness ==
    \E n \in DOMAIN calls :
        LET c == calls[n]
            rows == c.input.rows
        IN  /\ c.self.remove_duplicates /\ c.self.remove_nulls
            /\ \E i \in DOMAIN rows : EarlierTwin(rows, i) /\ HasAbsent(rows, i)
            /\ c.printed[1].args[1] = 1
            /\ c.printed[2].args[1] = 1
            /\ Len(rows) = 3

\* C8: at every point of a clean call the row counts recorded so far are
\* ordered: len(df) <= rows_before_null_removal <= original_rows; both reported
\* figures are >= 0; a finished call returned no more rows than it was given.
C8_RowCountsOrdered ==
    /\ pc # "idle" =>
        /\ len(heap[df]) <= locals["original_rows"]
        /\ "rows_before_null_removal" \in DOMAIN locals =>
              /\ len(heap[df]) <= locals["rows_before_null_removal"]
              /\ locals["rows_before_null_removal"] <= locals["original_rows"]
        /\ "duplicates_removed" \in DOMAIN locals => locals["duplicates_removed"] >= 0
        /\ "nulls_removed" \in DOMAIN locals => locals["nulls_removed"] >= 0
    /\ \A n \in DOMAIN calls :
        /\ len(calls[n].output) <= len(calls[n].input)
        /\ \A k \in DOMAIN calls[n].printed :
              \A m \in DOMAIN calls[n].printed[k].args :
                  calls[n].printed[k].args[m] >= 0

\* A call about to return after both stages removed rows.
C8_Witness ==
    /\ pc = "L98"
    /\ "duplicates_removed" \in DOMAIN locals /\ locals["duplicates_removed"] > 0
    /\ "nulls_removed" \in DOMAIN locals /\ locals["nulls_removed"] > 0
    /\ len(heap[df]) > 0

(***************************************************************************)
(* Properties of get_summary (under SpecSummary).                          *)
(***************************************************************************)

\* C4 as stated: on the sample table get_summary reports 7 rows, 2 duplicate
\* rows and 2 rows with nulls.
C4_AsStated ==
    \A k \in DOMAIN summary :
        IsSample(summary[k].input)
        => /\ summary[k].value.total_rows = 7
           /\ summary[k].value.duplicate_rows = 2
           /\ summary[k].value.rows_with_nulls = 2

\* C4, amended: on the sample table get_summary reports 7 rows, 2 duplicate
\* rows and 4 rows with nulls.
C4_SampleSummary ==
    \A k \in DOMAIN summary :
        IsSample(summary[k].input)
        => /\ summary[k].value.total_rows = 7
           /\ summary[k].value.duplicate_rows = 2
           /\ summary[k].value.rows_with_nulls = 4

\* get_summary has been called on the sample table.
C4_Witness == \E k \in DOMAIN summary : IsSample(summary[k].input)

\* C5: get_summary leaves its table as it was, and its figures are the direct
\* counts over that table: the rows; the rows equal to a strictly earlier row;
\* the rows with an absent value; per column, the rows where it is absent.  A
\* row that is both is counted in both figures: the two figures add up to the
\* rows that are either plus the rows that are both.
C5_SummaryCounts ==
    \A k \in DOMAIN summary :
        LET s == summary[k]
            rows == s.input.rows
            columns == s.input.columns
            D == {i \in DOMAIN rows : EarlierTwin(rows, i)}
            N == {i \in DOMAIN rows : HasAbsent(rows, i)}
        IN  /\ heap[s.of] = s.input
            /\ s.value.total_rows = Len(rows)
            /\ s.value.duplicate_rows = Cardinality(D)
            /\ s.value.rows_with_nulls = Cardinality(N)
            /\ DOMAIN s.value.null_counts_per_column = {columns[c] : c \in DOMAIN columns}
            /\ \A c \in DOMAIN columns :
                  s.value.null_counts_per_column[columns[c]]
                      = Cardinality({i \in DOMAIN rows : rows[i][c] = None})
            /\ s.value.duplicate_rows + s.value.rows_with_nulls
                  = Cardinality(D \cup N) + Cardinality(D \cap N)

\* A summary of a table with a row that is a duplicate and has an absent value,
\* whose first occurrence is counted under nulls only.
C5_Witness ==
    \E k \in DOMAIN summary :
        LET rows == summary[k].input.rows
        IN  /\ \E i \in DOMAIN rows : EarlierTwin(rows, i) /\ HasAbsent(rows, i)
            /\ summary[k].value.duplicate_rows = 1
            /\ summary[k].value.rows_with_nulls = 2
            /\ Len(rows) = 3

(***************************************************************************)
(* Properties of clean_data's output path (under SpecFile).                *)
(***************************************************************************)

\* The positions at which '.csv' occurs in a path.  Two occurrences never
\* overlap: '.' is its first character only.
Occurrences(path) ==
    {k \in 1..(Len(path) - Len(DotCsv) + 1) :
        SubSeq(path, k, k + Len(DotCsv) - 1) = DotCsv}

Min(S) == CHOOSE k \in S : \A j \in S : k <= j

\* path with its first '.csv', if any, replaced by '_cleaned.csv'.
FirstReplaced(path) ==
    IF Occurrences(path) = {} THEN path
    ELSE LET k == Min(Occurrences(path))
         IN  SubSeq(path, 1, k - 1) \o CleanedDotCsv
                 \o SubSeq(path, k + Len(DotCsv), Len(path))

\* out is path with every '.csv' replaced by '_cleaned.csv' and every other
\* character kept.
IsEveryReplaced(out, path) ==
    LET P == Occurrences(path)
        grow == Len(CleanedDotCsv) - Len(DotCsv)
        At(i) == i + grow * Cardinality({k \in P : k < i})
        Inside(i) == \E k \in P : k < i /\ i < k + Len(DotCsv)
    IN  /\ Len(out) = Len(path) + grow * Cardinality(P)
        /\ \A i \in DOMAIN path :
              IF i \in P
              THEN SubSeq(out, At(i), At(i) + Len(CleanedDotCsv) - 1) = CleanedDotCsv
              ELSE Inside(i) \/ out[At(i)] = path[i]

\* C9: without an output path the table is saved to the input path with only
\* its first '.csv' replaced by '_cleaned.csv' (one marker, as the docstring's
\* "appends '_cleaned' to the original filename" has it); a given output path
\* is used unchanged.  Line 162 does not do this: see OutputPathReplacesEvery.
C9_AsStated ==
    \A k \in DOMAIN saved :
        IF output_filepath = None
        THEN saved[k] = FirstReplaced(filepath)
        ELSE saved[k] = output_filepath[1]

\* What line 162 does instead: str.replace without a count puts the marker at
\* every occurrence of '.csv', also in a directory name.
OutputPathReplacesEvery ==
    \A k \in DOMAIN saved :
        IF output_filepath = None
        THEN IsEveryReplaced(saved[k], filepath)
        ELSE saved[k] = output_filepath[1]

\* The case in which C9 fails: clean_data saved without an output path, the
\* input path holding '.csv' more than once.
C9_Witness ==
    /\ saved # << >>
    /\ output_filepath = None
    /\ Cardinality(Occurrences(filepath)) >= 2

\* C10: without an output path, an input path with no '.csv' is its own output
\* path and the input file then holds the cleaned table; an input path with a
\* '.csv' never is its own output path.
C10_OutputPathVersusInput ==
    \A k \in DOMAIN saved :
        output_filepath = None
        => IF Occurrences(filepath) = {}
           THEN LET c == calls[Len(calls)]
                IN  /\ saved[k] = filepath
                    /\ fs[filepath].columns = c.input.columns
                    /\ IsSubsequenceAt(fs[filepath].rows, c.input.rows,
                           Survivors(c.input.rows, c.self.remove_duplicates,
                                     c.self.remove_nulls))
           ELSE saved[k] # filepath /\ fs[filepath] = DocFrame

\* clean_data, called on a path without '.csv' and no output path, has
\* replaced the input file's table by a shorter one.
C10_Witness ==
    /\ saved = <<filepath>>
    /\ output_filepath = None
    /\ Occurrences(filepath) = {}
    /\ Len(fs[filepath].rows) < Len(DocFrame.rows)

====
